---- MODULE Spec2Model ----
(***************************************************************************)
(* maimai: packet protocol, handler tasks and the presence debounce of     *)
(* handlers.go.  Strings the code indexes or splits are sequences of       *)
(* one-character strings; a JSON value is a tagged record.                 *)
(***************************************************************************)
EXTENDS Integers, Sequences, FiniteSets, TLC

\* ------------------------------------------------------------------ bounds
\* packets the dispatcher reads in one behaviour of the presence model
MaxPackets == 2
\* packets the dispatcher reads in one behaviour of the command-handler model
MaxCmdPackets == 2

\* partTimer sleeps time.Duration(5) * time.Minute; one Tick is one minute
DebounceDelay == 5

\* ------------------------------------------------------------ packet types
PingReplyType == "ping-reply"
PingEventType == "ping-event"
SendType == "send"
SendEventType == "send-event"
SendReplyType == "send-reply"
NickType == "nick"
NickReplyType == "nick-reply"
NickEventType == "nick-event"
JoinEventType == "join-event"
PartEventType == "part-event"
AuthType == "auth"
BounceEventType == "bounce-event"

\* --------------------------------------------------------------- JSON data
JNull == [j |-> "null"]
JNone == [j |-> "none"]
JNum(n) == [j |-> "num", v |-> n]
JStr(s) == [j |-> "str", v |-> s]
JObj(o) == [j |-> "obj", v |-> o]

\* encoding/json into a string field: absent or null leaves the zero value,
\* a value of another JSON kind leaves the zero value and records an error
StrField(o, f) == IF f \in DOMAIN o /\ o[f].j = "str" THEN o[f].v ELSE <<>>
NumField(o, f) == IF f \in DOMAIN o /\ o[f].j = "num" THEN o[f].v ELSE 0
FieldErr(o, f, kind) == f \in DOMAIN o /\ o[f].j \notin {kind, "null"}

NoErr == "nil"
UnexpectedType == "Unexpected packet type."
UnmarshalTypeError == "json: cannot unmarshal"
SyntaxError == "unexpected end of JSON input"

NilPayload == [variant |-> "nil"]
NilUser == [nil |-> TRUE]

UserFields == {"id", "name", "server_id", "server_era"}

DecodeUser(o) ==
    [nil |-> FALSE, ID |-> StrField(o, "id"), Name |-> StrField(o, "name")]

UserErr(o) == FieldErr(o, "id", "str") \/ FieldErr(o, "name", "str")

\* The struct a packet type selects, filled from a JSON object.
DecodeStruct(type, o) ==
    CASE type = PingEventType ->
           [variant |-> "PingEvent", Time |-> NumField(o, "time"),
            Next |-> NumField(o, "next")]
      [] type \in {SendEventType, SendReplyType} ->
           [variant |-> "Message", ID |-> StrField(o, "id"),
            Parent |-> StrField(o, "parent"), Time |-> NumField(o, "time"),
            Sender |-> IF "sender" \in DOMAIN o /\ o["sender"].j = "obj"
                       THEN DecodeUser(o["sender"].v)
                       ELSE [nil |-> FALSE, ID |-> <<>>, Name |-> <<>>],
            Content |-> StrField(o, "content")]
      [] type = SendType ->
           [variant |-> "SendCommand", Content |-> StrField(o, "content"),
            Parent |-> StrField(o, "parent")]
      [] type = NickEventType ->
           [variant |-> "NickEvent", From |-> StrField(o, "from"),
            To |-> StrField(o, "to")]
      [] type \in {JoinEventType, PartEventType} ->
           [variant |-> "PresenceEvent",
            User |-> IF DOMAIN o \cap UserFields # {} THEN DecodeUser(o)
                     ELSE NilUser,
            SessionID |-> StrField(o, "session_id")]
      [] type = PingReplyType ->
           [variant |-> "PingReply", UnixTime |-> NumField(o, "time")]
      [] type = AuthType ->
           [variant |-> "AuthCommand", Type |-> StrField(o, "type")]
      [] type = BounceEventType ->
           [variant |-> "BounceEvent", Reason |-> StrField(o, "reason")]

StructErr(type, o) ==
    CASE type = PingEventType ->
           FieldErr(o, "time", "num") \/ FieldErr(o, "next", "num")
      [] type \in {SendEventType, SendReplyType} ->
           \/ FieldErr(o, "id", "str") \/ FieldErr(o, "parent", "str")
           \/ FieldErr(o, "time", "num") \/ FieldErr(o, "content", "str")
           \/ FieldErr(o, "sender", "obj")
           \/ ("sender" \in DOMAIN o /\ o["sender"].j = "obj"
                 /\ UserErr(o["sender"].v))
      [] type = SendType ->
           FieldErr(o, "content", "str") \/ FieldErr(o, "parent", "str")
      [] type = NickEventType ->
           FieldErr(o, "from", "str") \/ FieldErr(o, "to", "str")
      [] type \in {JoinEventType, PartEventType} ->
           UserErr(o) \/ FieldErr(o, "session_id", "str")
      [] type = PingReplyType -> FieldErr(o, "time", "num")
      [] type = AuthType -> FieldErr(o, "type", "str")
      [] type = BounceEventType -> FieldErr(o, "reason", "str")

RegisteredTypes ==
    {PingEventType, SendEventType, SendReplyType, SendType, NickEventType,
     JoinEventType, PartEventType, PingReplyType, AuthType, BounceEventType}

\* json.Unmarshal(p.Data, &payload), payload holding a pointer to the struct:
\* JSON null sets the interface itself to nil without an error; a scalar or
\* absent data keeps the zero struct and returns an error.
Unmarshal(type, data) ==
    CASE data.j = "null" -> [payload |-> NilPayload, err |-> NoErr]
      [] data.j = "none" ->
           [payload |-> DecodeStruct(type, <<>>), err |-> SyntaxError]
      [] data.j \in {"num", "str"} ->
           [payload |-> DecodeStruct(type, <<>>), err |-> UnmarshalTypeError]
      [] data.j = "obj" ->
           [payload |-> DecodeStruct(type, data.v),
            err |-> IF StructErr(type, data.v) THEN UnmarshalTypeError
                    ELSE NoErr]

\* func (p *PacketEvent) Payload() (interface{}, error)
Payload(p) ==
    IF p.type \in RegisteredTypes
    THEN Unmarshal(p.type, p.data)
    ELSE [payload |-> [variant |-> "raw"], err |-> UnexpectedType]

Panic == [variant |-> "panic"]

\* GetMessagePayload: the error is dropped and a failed assertion returns
\* the nil *Message
GetMessagePayload(p) ==
    IF Payload(p).payload.variant = "Message" THEN Payload(p).payload
    ELSE NilPayload

GetNickEventPayload(p) ==
    IF Payload(p).payload.variant = "NickEvent" THEN Payload(p).payload
    ELSE Panic

GetPresenceEventPayload(p) ==
    IF Payload(p).payload.variant = "PresenceEvent" THEN Payload(p).payload
    ELSE Panic


\* ---------------------------------------------------------------- strings
Space == " "
HasSpace(s) == \E i \in DOMAIN s : s[i] = Space
FirstSpace(s) == CHOOSE i \in DOMAIN s : s[i] = Space /\ \A k \in 1..(i - 1) : s[k] # Space

\* strings.Split(s, " ")
RECURSIVE Split(_)
Split(s) ==
    IF ~HasSpace(s) THEN <<s>>
    ELSE <<SubSeq(s, 1, FirstSpace(s) - 1)>>
           \o Split(SubSeq(s, FirstSpace(s) + 1, Len(s)))

\* strings.TrimSpace(s)
RECURSIVE TrimSpace(_)
TrimSpace(s) ==
    IF s = <<>> THEN s
    ELSE IF Head(s) = Space THEN TrimSpace(Tail(s))
    ELSE IF s[Len(s)] = Space THEN TrimSpace(SubSeq(s, 1, Len(s) - 1))
    ELSE s

\* strings.Replace(s, " ", "", -1)
RemoveSpaces(s) == SelectSeq(s, LAMBDA c : c # Space)

HasPrefix(s, pre) == Len(s) >= Len(pre) /\ SubSeq(s, 1, Len(pre)) = pre

\* the text up to the first space
FirstWord(s) == IF HasSpace(s) THEN SubSeq(s, 1, FirstSpace(s) - 1) ELSE s

PingCmd == <<"!", "p", "i", "n", "g">>
SeenCmd == <<"!", "s", "e", "e", "n">>
UptimeCmd == <<"!", "u", "p", "t", "i", "m", "e">>
ScritchCmd == <<"!", "s", "c", "r", "i", "t", "c", "h">>
HttpPrefix == <<"h", "t", "t", "p">>
HttpScheme == <<"h", "t", "t", "p", ":", "/", "/">>

\* func isValidPingCommand(payload *Message) bool
isValidPingCommand(payload) ==
    Len(payload.Content) >= 5 /\ SubSeq(payload.Content, 1, 5) = PingCmd

\* func isValidSeenCommand(payload *Message) bool; Content[6] is the seventh
\* byte, read without a length check: [panic, ok]
isValidSeenCommand(payload) ==
    IF Len(payload.Content) >= 5 /\ SubSeq(payload.Content, 1, 5) = SeenCmd
    THEN IF Len(payload.Content) < 7
         THEN [panic |-> TRUE, ok |-> FALSE]
         ELSE [panic |-> FALSE,
               ok |-> payload.Content[7] = "@"
                        /\ Len(Split(payload.Content)) = 2]
    ELSE [panic |-> FALSE, ok |-> FALSE]

\* splits[1][1:] of the trimmed content: [panic, key]
SeenKey(content) ==
    IF Len(Split(TrimSpace(content))) < 2 \/ Split(TrimSpace(content))[2] = <<>>
    THEN [panic |-> TRUE, key |-> <<>>]
    ELSE [panic |-> FALSE, key |-> Tail(Split(TrimSpace(content))[2])]

\* linkMatcher, "(https?://)?[\S]+\.[\S][\S]+[\S^\.]": within a run of
\* non-space characters, a dot with a character before it and three after
\* it; the match is then the whole run.
IsLink(w) == \E d \in 2..(Len(w) - 3) : w[d] = "."

\* linkMatcher.FindAllString(content, -1), each url given its scheme
FindAllURLs(content) ==
    LET words == SelectSeq(Split(content), LAMBDA w : w # <<>> /\ IsLink(w))
    IN [i \in DOMAIN words |->
          IF HasPrefix(words[i], HttpPrefix) THEN words[i]
          ELSE HttpScheme \o words[i]]

\* ------------------------------------------------------------------- state
VARIABLES
    stream,      \* packets the dispatcher has read from the connection
    input,       \* input[h]: handler h's input channel
    pc,          \* pc[h]: where handler h is ("select", ..., "done")
    cur,         \* cur[h]: the packet handler h is processing
    loc,         \* loc[h]: handler h's local variables
    observed,    \* observed[h]: ids of the packets h has received, in order
    leaving,     \* the Room's leaving set
    timers,      \* the partTimer goroutines started so far
    sent,        \* what SendText / sendPing have put on the connection
    errChan,     \* errors delivered on room.errChan
    calls,       \* calls made to the seen store and the message log
    seen,        \* user keys the seen store holds
    logged,      \* what room.Logger has been given
    cmdChan,     \* handlers a "kill" is waiting for
    kills,       \* how often shutdown has been triggered
    panicked,    \* a goroutine panicked: the process is gone
    rejoined,    \* part-events followed by a join read before their timer fired
    joinedAfter  \* part-events a join for the same user was processed after

vars == <<stream, input, pc, cur, loc, observed, leaving, timers, sent,
          errChan, calls, seen, logged, cmdChan, kills, panicked, rejoined,
          joinedAfter>>

PartH == "PartEventHandler"
JoinH == "JoinEventHandler"
NickH == "NickChangeHandler"

NoPacket == [id |-> 0, type |-> "", data |-> JNone, error |-> ""]
NoLoc == [user |-> <<>>, flag |-> FALSE, urls |-> <<>>, err |-> "nil"]

UnknownType == "hello-event"
AllTypes == RegisteredTypes \cup {NickType, NickReplyType, UnknownType}

\* a handler without its type filter
ReactsAll(h) == AllTypes

\* The packet types a handler lets through its type filter.
Reacts(h) ==
    CASE h = "PingEventHandler" -> {PingEventType}
      [] h \in {"PingCommandHandler", "SeenRecordHandler",
                "SeenCommandHandler", "LinkTitleHandler",
                "UptimeCommandHandler", "ScritchCommandHandler"} ->
           {SendEventType}
      [] h = NickH -> {NickEventType}
      [] h = PartH -> {PartEventType}
      [] h = JoinH -> {JoinEventType, NickEventType}
      [] h = "MessageLogHandler" -> {SendEventType, SendReplyType}
      [] h = "DebugHandler" -> AllTypes

InitRoom(hs, store) ==
    /\ stream = <<>>
    /\ input = [h \in hs |-> <<>>]
    /\ pc = [h \in hs |-> "select"]
    /\ cur = [h \in hs |-> NoPacket]
    /\ loc = [h \in hs |-> NoLoc]
    /\ observed = [h \in hs |-> <<>>]
    /\ leaving = {}
    /\ timers = <<>>
    /\ sent = <<>>
    /\ errChan = <<>>
    /\ calls = <<>>
    /\ seen = store
    /\ logged = <<>>
    /\ cmdChan = {}
    /\ kills = 0
    /\ panicked = FALSE
    /\ rejoined = {}
    /\ joinedAfter = {}

\* ------------------------------------------------------------------- Room
isUserLeaving(user) == user \in leaving
setUserLeaving(user) == leaving' = leaving \cup {user}
clearUserLeaving(user) == leaving' = leaving \ {user}

SendText(text, parent, by, pkt) ==
    sent' = Append(sent, [text |-> text, parent |-> parent, by |-> by,
                          pkt |-> pkt])

\* ------------------------------------------------- presence: who a packet
\* names, as the handlers read it
PartTarget(p) ==
    IF GetPresenceEventPayload(p) = Panic
       \/ GetPresenceEventPayload(p).User = NilUser
    THEN [panic |-> TRUE, skip |-> FALSE, user |-> <<>>]
    ELSE [panic |-> FALSE, skip |-> FALSE,
          user |-> GetPresenceEventPayload(p).User.Name]

\* a join handler that does not look at the `from` of a nick-event
JoinTargetAnyFrom(p) ==
    IF p.type = JoinEventType
    THEN IF GetPresenceEventPayload(p) = Panic
            \/ GetPresenceEventPayload(p).User = NilUser
         THEN [panic |-> TRUE, skip |-> FALSE, user |-> <<>>]
         ELSE [panic |-> FALSE,
               skip |-> GetPresenceEventPayload(p).User.Name = <<>>,
               user |-> GetPresenceEventPayload(p).User.Name]
    ELSE IF GetNickEventPayload(p) = Panic
         THEN [panic |-> TRUE, skip |-> FALSE, user |-> <<>>]
         ELSE [panic |-> FALSE, skip |-> FALSE,
               user |-> GetNickEventPayload(p).To]

JoinTarget(p) ==
    IF p.type = JoinEventType
    THEN IF GetPresenceEventPayload(p) = Panic
            \/ GetPresenceEventPayload(p).User = NilUser
         THEN [panic |-> TRUE, skip |-> FALSE, user |-> <<>>]
         ELSE [panic |-> FALSE,
               skip |-> GetPresenceEventPayload(p).User.Name = <<>>,
               user |-> GetPresenceEventPayload(p).User.Name]
    ELSE IF GetNickEventPayload(p) = Panic
         THEN [panic |-> TRUE, skip |-> FALSE, user |-> <<>>]
         ELSE [panic |-> FALSE,
               skip |-> GetNickEventPayload(p).From # <<>>,
               user |-> GetNickEventPayload(p).To]

IsPartOf(p, user) ==
    p.type = PartEventType /\ ~PartTarget(p).panic /\ PartTarget(p).user = user

IsJoinOf(p, user) ==
    /\ p.type \in {JoinEventType, NickEventType}
    /\ ~JoinTarget(p).panic
    /\ IF p.type = JoinEventType THEN JoinTarget(p).user = user
       ELSE ~JoinTarget(p).skip /\ JoinTarget(p).user = user

\* the timer of part-event q has fired: its delay has run out
Fired(q) ==
    \E t \in DOMAIN timers :
       timers[t].part = q /\ timers[t].slept >= DebounceDelay

\* part-event q has had its setUserLeaving
Processed(q) == \E t \in DOMAIN timers : timers[t].part = q

\* -------------------------------------------------------------- dispatcher
\* One packet read from the connection and copied to every live handler.
Dispatch(p, max) ==
    /\ ~panicked
    /\ Len(stream) < max
    /\ LET pkt == [p EXCEPT !.id = Len(stream) + 1] IN
         /\ stream' = Append(stream, pkt)
         /\ input' = [h \in DOMAIN input |->
                        IF pc[h] # "done" THEN Append(input[h], pkt)
                        ELSE input[h]]
         /\ rejoined' = rejoined \cup
              {q \in DOMAIN stream :
                 \E u \in {PartTarget(stream[q]).user} \ {<<>>} :
                    /\ IsPartOf(stream[q], u)
                    /\ IsJoinOf(pkt, u)
                    /\ ~Fired(q)}
    /\ UNCHANGED <<pc, cur, loc, observed, leaving, timers, sent, errChan,
                   calls, seen, logged, cmdChan, kills, panicked, joinedAfter>>

\* ---------------------------------------------------------- handler loops
\* a receive that leaves the packet in the channel
ReceiveAgain(h) ==
    /\ ~panicked
    /\ pc[h] = "select"
    /\ input[h] # <<>>
    /\ observed' = [observed EXCEPT ![h] = Append(@, Head(input[h]).id)]
    /\ IF Head(input[h]).type \in Reacts(h)
       THEN /\ pc' = [pc EXCEPT ![h] = "react"]
            /\ cur' = [cur EXCEPT ![h] = Head(input[h])]
       ELSE UNCHANGED <<pc, cur>>
    /\ UNCHANGED <<stream, input, loc, leaving, timers, sent, errChan, calls,
                   seen, logged, cmdChan, kills, panicked, rejoined,
                   joinedAfter>>

\* case packet := <-input, and the type filter that follows it
Receive(h) ==
    /\ ~panicked
    /\ pc[h] = "select"
    /\ input[h] # <<>>
    /\ input' = [input EXCEPT ![h] = Tail(@)]
    /\ observed' = [observed EXCEPT ![h] = Append(@, Head(input[h]).id)]
    /\ IF Head(input[h]).type \in Reacts(h)
       THEN /\ pc' = [pc EXCEPT ![h] = "react"]
            /\ cur' = [cur EXCEPT ![h] = Head(input[h])]
       ELSE UNCHANGED <<pc, cur>>
    /\ UNCHANGED <<stream, loc, leaving, timers, sent, errChan, calls, seen, logged,
                   cmdChan, kills, panicked, rejoined, joinedAfter>>

\* back to the top of the for loop
Continue(h) ==
    /\ pc' = [pc EXCEPT ![h] = "select"]
    /\ cur' = [cur EXCEPT ![h] = NoPacket]
    /\ loc' = [loc EXCEPT ![h] = NoLoc]

DoPanic ==
    /\ panicked' = TRUE
    /\ UNCHANGED <<stream, input, pc, cur, loc, observed, leaving, timers,
                   sent, errChan, calls, seen, logged, cmdChan, kills, rejoined,
                   joinedAfter>>

\* ------------------------------------------------------- PartEventHandler
\* room.setUserLeaving(user); go partTimer(room, user)
PartReact ==
    /\ ~panicked
    /\ PartH \in DOMAIN pc
    /\ pc[PartH] = "react"
    /\ IF PartTarget(cur[PartH]).panic
       THEN DoPanic
       ELSE /\ setUserLeaving(PartTarget(cur[PartH]).user)
            /\ timers' = Append(timers, [user |-> PartTarget(cur[PartH]).user,
                                         part |-> cur[PartH].id,
                                         pc |-> "sleep", slept |-> 0])
            /\ Continue(PartH)
            /\ UNCHANGED <<stream, input, observed, sent, errChan, calls,
                           seen, logged, cmdChan, kills, panicked, rejoined,
                           joinedAfter>>

\* -------------------------------------------------------------- partTimer
\* One minute passes for every sleeping timer.
Tick ==
    /\ ~panicked
    /\ \E t \in DOMAIN timers :
          timers[t].pc = "sleep" /\ timers[t].slept < DebounceDelay
    /\ timers' = [t \in DOMAIN timers |->
                    IF timers[t].pc = "sleep" /\ timers[t].slept < DebounceDelay
                    THEN [timers[t] EXCEPT !.slept = @ + 1]
                    ELSE timers[t]]
    /\ UNCHANGED <<stream, input, pc, cur, loc, observed, leaving, sent,
                   errChan, calls, seen, logged, cmdChan, kills, panicked, rejoined,
                   joinedAfter>>

\* a timer that does not wait out its sleep
SleepOverNoWait(t) == TRUE

\* a sleep that the kill signal cuts off for good
SleepOverUnlessKilled(t) == timers[t].slept >= DebounceDelay /\ kills = 0

\* time.Sleep has returned
SleepOver(t) == timers[t].slept >= DebounceDelay

\* if room.isUserLeaving(user) && user != ""
TimerAnnounces(t) == isUserLeaving(timers[t].user) /\ timers[t].user # <<>>

TimerCheck(t) ==
    /\ ~panicked
    /\ timers[t].pc = "sleep"
    /\ SleepOver(t)
    /\ timers' = [timers EXCEPT ![t].pc =
                    IF TimerAnnounces(t) THEN "send" ELSE "done"]
    /\ UNCHANGED <<stream, input, pc, cur, loc, observed, leaving, sent,
                   errChan, calls, seen, logged, cmdChan, kills, panicked, rejoined,
                   joinedAfter>>

TimerSend(t) ==
    /\ ~panicked
    /\ timers[t].pc = "send"
    /\ SendText([fmt |-> "left", user |-> timers[t].user], <<>>, "partTimer",
                timers[t].part)
    /\ timers' = [timers EXCEPT ![t].pc = "clear"]
    /\ UNCHANGED <<stream, input, pc, cur, loc, observed, leaving, errChan,
                   calls, seen, logged, cmdChan, kills, panicked, rejoined,
                   joinedAfter>>

TimerClear(t) ==
    /\ ~panicked
    /\ timers[t].pc = "clear"
    /\ clearUserLeaving(timers[t].user)
    /\ timers' = [timers EXCEPT ![t].pc = "done"]
    /\ UNCHANGED <<stream, input, pc, cur, loc, observed, sent, errChan,
                   calls, seen, logged, cmdChan, kills, panicked, rejoined,
                   joinedAfter>>

\* ------------------------------------------------------- JoinEventHandler
\* a step of JoinEventHandler on a join of user comes after these part-events
MarkJoined(user) ==
    joinedAfter' = joinedAfter \cup
        {q \in DOMAIN stream : IsPartOf(stream[q], user) /\ Processed(q)}

\* a join handler that announces whatever the leaving set says
JoinAnnouncesAlways(user) == TRUE

\* if !room.isUserLeaving(user): the announcement is due
JoinAnnounces(user) == ~isUserLeaving(user)

JoinCheck ==
    /\ ~panicked
    /\ JoinH \in DOMAIN pc
    /\ pc[JoinH] = "react"
    /\ IF JoinTarget(cur[JoinH]).panic
       THEN DoPanic
       ELSE IF JoinTarget(cur[JoinH]).skip
       THEN /\ Continue(JoinH)
            /\ UNCHANGED <<stream, input, observed, leaving, timers, sent,
                           errChan, calls, seen, logged, cmdChan, kills, panicked,
                           rejoined, joinedAfter>>
       ELSE /\ loc' = [loc EXCEPT ![JoinH] =
                         [NoLoc EXCEPT
                            !.user = JoinTarget(cur[JoinH]).user,
                            !.flag = isUserLeaving(JoinTarget(cur[JoinH]).user)]]
            /\ pc' = [pc EXCEPT ![JoinH] =
                        IF JoinAnnounces(JoinTarget(cur[JoinH]).user)
                        THEN "send" ELSE "clear"]
            /\ MarkJoined(JoinTarget(cur[JoinH]).user)
            /\ UNCHANGED <<stream, input, cur, observed, leaving, timers,
                           sent, errChan, calls, seen, logged, cmdChan, kills,
                           panicked, rejoined>>

JoinSend ==
    /\ ~panicked
    /\ JoinH \in DOMAIN pc
    /\ pc[JoinH] = "send"
    /\ SendText([fmt |-> "joined", user |-> loc[JoinH].user], <<>>, JoinH,
                cur[JoinH].id)
    /\ pc' = [pc EXCEPT ![JoinH] = "clear"]
    /\ MarkJoined(loc[JoinH].user)
    /\ UNCHANGED <<stream, input, cur, loc, observed, leaving, timers,
                   errChan, calls, seen, logged, cmdChan, kills, panicked, rejoined>>

JoinClear ==
    /\ ~panicked
    /\ JoinH \in DOMAIN pc
    /\ pc[JoinH] = "clear"
    /\ clearUserLeaving(loc[JoinH].user)
    /\ MarkJoined(loc[JoinH].user)
    /\ Continue(JoinH)
    /\ UNCHANGED <<stream, input, observed, timers, sent, errChan, calls,
                   seen, logged, cmdChan, kills, panicked, rejoined>>

\* ------------------------------------------------------ NickChangeHandler
NickReact ==
    /\ ~panicked
    /\ NickH \in DOMAIN pc
    /\ pc[NickH] = "react"
    /\ IF GetNickEventPayload(cur[NickH]) = Panic
       THEN DoPanic
       ELSE /\ IF GetNickEventPayload(cur[NickH]).From = <<>>
                  \/ GetNickEventPayload(cur[NickH]).To = <<>>
               THEN UNCHANGED sent
               ELSE SendText([fmt |-> "nick",
                              from |-> GetNickEventPayload(cur[NickH]).From,
                              to |-> GetNickEventPayload(cur[NickH]).To],
                             <<>>, NickH, cur[NickH].id)
            /\ Continue(NickH)
            /\ UNCHANGED <<stream, input, observed, leaving, timers, errChan,
                           calls, seen, logged, cmdChan, kills, panicked, rejoined,
                           joinedAfter>>

\* ------------------------------------------------------ command handlers
PingEventH == "PingEventHandler"
PingCommandH == "PingCommandHandler"
SeenRecordH == "SeenRecordHandler"
SeenCommandH == "SeenCommandHandler"
LinkTitleH == "LinkTitleHandler"
UptimeH == "UptimeCommandHandler"
ScritchH == "ScritchCommandHandler"
DebugH == "DebugHandler"
MessageLogH == "MessageLogHandler"

presenceVars == <<leaving, timers, rejoined, joinedAfter>>
lifeVars == <<cmdChan, kills>>
chanVars == <<stream, input, observed>>

AssertPingErr == "Could not assert payload as *PingEvent."
StoreErr == "store error"

\* room.errChan <- err: the handler waits for the error to be taken
Report(h, err) ==
    /\ pc' = [pc EXCEPT ![h] = "report"]
    /\ loc' = [loc EXCEPT ![h].err = err]
    /\ UNCHANGED cur

\* the supervisor takes the error off room.errChan; the handler returns
ErrReceive(h) ==
    /\ ~panicked
    /\ pc[h] = "report"
    /\ errChan' = Append(errChan, [err |-> loc[h].err, by |-> h,
                                   pkt |-> cur[h].id])
    /\ pc' = [pc EXCEPT ![h] = "done"]
    /\ UNCHANGED <<cur, loc, chanVars, presenceVars, lifeVars, sent, calls,
                   seen, logged, panicked>>

\* a nil *Message dereferenced
Crash ==
    /\ panicked' = TRUE
    /\ UNCHANGED <<pc, cur, loc, sent, errChan, calls, seen, logged>>

PingEventReact ==
    /\ ~panicked
    /\ PingEventH \in DOMAIN pc
    /\ pc[PingEventH] = "react"
    /\ IF Payload(cur[PingEventH]).err # NoErr
       THEN Report(PingEventH, Payload(cur[PingEventH]).err) /\ UNCHANGED sent
       ELSE IF Payload(cur[PingEventH]).payload.variant # "PingEvent"
       THEN Report(PingEventH, AssertPingErr) /\ UNCHANGED sent
       ELSE /\ SendText([fmt |-> "ping-reply",
                         time |-> Payload(cur[PingEventH]).payload.Time],
                        <<>>, PingEventH, cur[PingEventH].id)
            /\ Continue(PingEventH)
    /\ UNCHANGED <<chanVars, presenceVars, lifeVars, errChan, calls, seen,
                   logged, panicked>>

\* a handler that replies when the content equals cmd
ReplyIf(h, matches, fmt) ==
    /\ ~panicked
    /\ h \in DOMAIN pc
    /\ pc[h] = "react"
    /\ IF GetMessagePayload(cur[h]) = NilPayload
       THEN Crash
       ELSE /\ IF matches
               THEN SendText([fmt |-> fmt], GetMessagePayload(cur[h]).ID, h,
                             cur[h].id)
               ELSE UNCHANGED sent
            /\ Continue(h)
            /\ UNCHANGED <<errChan, calls, seen, logged, panicked>>
    /\ UNCHANGED <<chanVars, presenceVars, lifeVars>>

PingCommandReact ==
    ReplyIf(PingCommandH,
            GetMessagePayload(cur[PingCommandH]) # NilPayload
              /\ isValidPingCommand(GetMessagePayload(cur[PingCommandH])),
            "pong!")

UptimeCommandReact ==
    ReplyIf(UptimeH,
            GetMessagePayload(cur[UptimeH]) # NilPayload
              /\ GetMessagePayload(cur[UptimeH]).Content = UptimeCmd,
            "This bot has been up for %s.")

ScritchCommandReact ==
    ReplyIf(ScritchH,
            GetMessagePayload(cur[ScritchH]) # NilPayload
              /\ GetMessagePayload(cur[ScritchH]).Content = ScritchCmd,
            "/me bruxes")

\* room.storeSeen(user, t): the store may fail
SeenRecordReact ==
    /\ ~panicked
    /\ SeenRecordH \in DOMAIN pc
    /\ pc[SeenRecordH] = "react"
    /\ IF GetMessagePayload(cur[SeenRecordH]) = NilPayload
       THEN Crash
       ELSE \E failed \in BOOLEAN :
              LET key == RemoveSpaces(
                            GetMessagePayload(cur[SeenRecordH]).Sender.Name)
              IN /\ calls' = Append(calls, [op |-> "storeSeen", key |-> key,
                                            by |-> SeenRecordH,
                                            pkt |-> cur[SeenRecordH].id,
                                            failed |-> failed])
                 /\ seen' = IF failed THEN seen ELSE seen \cup {key}
                 /\ IF failed THEN Report(SeenRecordH, StoreErr)
                    ELSE Continue(SeenRecordH)
                 /\ UNCHANGED <<sent, errChan, logged, panicked>>
    /\ UNCHANGED <<chanVars, presenceVars, lifeVars>>

\* room.retrieveSeen(splits[1][1:]) and the reply that follows it
SeenCommandReact ==
    /\ ~panicked
    /\ SeenCommandH \in DOMAIN pc
    /\ pc[SeenCommandH] = "react"
    /\ LET data == GetMessagePayload(cur[SeenCommandH]) IN
       IF data = NilPayload THEN Crash
       ELSE IF isValidSeenCommand(data).panic THEN Crash
       ELSE IF ~isValidSeenCommand(data).ok
       THEN /\ Continue(SeenCommandH)
            /\ UNCHANGED <<sent, errChan, calls, seen, logged, panicked>>
       ELSE IF SeenKey(data.Content).panic THEN Crash
       ELSE \E failed \in BOOLEAN :
              /\ calls' = Append(calls, [op |-> "retrieveSeen",
                                         key |-> SeenKey(data.Content).key,
                                         by |-> SeenCommandH,
                                         pkt |-> cur[SeenCommandH].id,
                                         failed |-> failed])
              /\ IF failed
                 THEN Report(SeenCommandH, StoreErr) /\ UNCHANGED sent
                 ELSE /\ SendText(
                           [fmt |-> IF SeenKey(data.Content).key \in seen
                                    THEN "Seen %v hours ago."
                                    ELSE "User has not been seen yet."],
                           data.ID, SeenCommandH, cur[SeenCommandH].id)
                      /\ Continue(SeenCommandH)
              /\ UNCHANGED <<errChan, seen, logged, panicked>>
    /\ UNCHANGED <<chanVars, presenceVars, lifeVars>>

\* urls := linkMatcher.FindAllString(data.Content, -1)
LinkTitleReact ==
    /\ ~panicked
    /\ LinkTitleH \in DOMAIN pc
    /\ pc[LinkTitleH] = "react"
    /\ LET data == GetMessagePayload(cur[LinkTitleH]) IN
       IF data = NilPayload THEN Crash
       ELSE /\ IF FindAllURLs(data.Content) = <<>>
               THEN Continue(LinkTitleH)
               ELSE /\ pc' = [pc EXCEPT ![LinkTitleH] = "fetch"]
                    /\ loc' = [loc EXCEPT ![LinkTitleH].urls =
                                 FindAllURLs(data.Content)]
                    /\ UNCHANGED cur
            /\ UNCHANGED <<sent, errChan, calls, seen, logged, panicked>>
    /\ UNCHANGED <<chanVars, presenceVars, lifeVars>>

\* getLinkTitle(url): http.Get with no timeout returns an error, a page with
\* no usable title or a page with a title, or never returns
FetchOutcomes == {"err", "empty", "title", "hang"}

LinkTitleFetched ==
    /\ ~panicked
    /\ LinkTitleH \in DOMAIN pc
    /\ pc[LinkTitleH] = "fetch"
    /\ \E out \in FetchOutcomes :
          IF out = "title"
          THEN /\ SendText([fmt |-> "Link title: ",
                            url |-> Head(loc[LinkTitleH].urls)],
                           GetMessagePayload(cur[LinkTitleH]).ID, LinkTitleH,
                           cur[LinkTitleH].id)
               /\ Continue(LinkTitleH)
          ELSE IF out = "hang"
          THEN /\ pc' = [pc EXCEPT ![LinkTitleH] = "hung"]
               /\ UNCHANGED <<cur, loc, sent>>
          ELSE /\ IF Len(loc[LinkTitleH].urls) > 1
                  THEN /\ loc' = [loc EXCEPT ![LinkTitleH].urls = Tail(@)]
                       /\ UNCHANGED <<pc, cur>>
                  ELSE Continue(LinkTitleH)
               /\ UNCHANGED sent
    /\ UNCHANGED <<chanVars, presenceVars, lifeVars, errChan, calls, seen,
                   logged, panicked>>

\* what DebugHandler hands room.Logger for a packet
DebugLines(p) ==
    (IF p.error # "" THEN <<[what |-> "error", pkt |-> p.id]>> ELSE <<>>)
      \o (IF p.type = BounceEventType /\ Payload(p).err = NoErr
             /\ Payload(p).payload.variant = "BounceEvent"
          THEN <<[what |-> "bounce", pkt |-> p.id]>> ELSE <<>>)

DebugReact ==
    /\ ~panicked
    /\ DebugH \in DOMAIN pc
    /\ pc[DebugH] = "react"
    /\ logged' = logged \o DebugLines(cur[DebugH])
    /\ Continue(DebugH)
    /\ UNCHANGED <<chanVars, presenceVars, lifeVars, sent, errChan, calls,
                   seen, panicked>>

\* room.storeMsgLogEvent(msgID, msgLogEvent): what the store returns is not
\* looked at
MessageLogReact ==
    /\ ~panicked
    /\ MessageLogH \in DOMAIN pc
    /\ pc[MessageLogH] = "react"
    /\ IF GetMessagePayload(cur[MessageLogH]) = NilPayload
       THEN Crash
       ELSE \E failed \in BOOLEAN :
              /\ calls' = Append(calls,
                     [op |-> "storeMsgLogEvent",
                      key |-> GetMessagePayload(cur[MessageLogH]).ID,
                      by |-> MessageLogH, pkt |-> cur[MessageLogH].id,
                      failed |-> failed])
              /\ Continue(MessageLogH)
              /\ UNCHANGED <<sent, errChan, seen, logged, panicked>>
    /\ UNCHANGED <<chanVars, presenceVars, lifeVars>>

\* ---------------------------------------------------------------- shutdown
\* times the model triggers shutdown in one behaviour
MaxKills == 2

\* The dispatcher's "kill" broadcast: one "kill" for every handler task.
TriggerShutdown ==
    /\ ~panicked
    /\ kills < MaxKills
    /\ kills' = kills + 1
    /\ cmdChan' = DOMAIN pc
    /\ UNCHANGED <<chanVars, presenceVars, pc, cur, loc, sent, errChan,
                   calls, seen, logged, panicked>>

\* case cmd := <-cmdChan: if cmd == "kill" { return }
ObserveKill(h) ==
    /\ ~panicked
    /\ pc[h] = "select"
    /\ h \in cmdChan
    /\ cmdChan' = cmdChan \ {h}
    /\ pc' = [pc EXCEPT ![h] = "done"]
    /\ UNCHANGED <<chanVars, presenceVars, kills, cur, loc, sent, errChan,
                   calls, seen, logged, panicked>>

\* ------------------------------------------------- the presence subsystem
Alice == <<"a">>
Names == {<<>>, Alice}

Presence(type, name) ==
    [id |-> 0, type |-> type, error |-> "",
     data |-> JObj([name |-> JStr(name), session_id |-> JStr(<<"s">>)])]

Nick(from, to) ==
    [id |-> 0, type |-> NickEventType, error |-> "",
     data |-> JObj([from |-> JStr(from), to |-> JStr(to)])]

\* a packet whose data is not the object its type calls for
Malformed(type, data) == [id |-> 0, type |-> type, error |-> "", data |-> data]

PresencePackets ==
    {Presence(t, n) : t \in {PartEventType, JoinEventType}, n \in Names}
      \cup {Nick(f, t) : f \in Names, t \in Names}
      \cup {Malformed(PartEventType, JNull), Malformed(JoinEventType, JNum(0)),
            Malformed(NickEventType, JNull)}

PresenceConfigs == {{PartH, JoinH}}

Init == \E hs \in PresenceConfigs : InitRoom(hs, {})

Next ==
    \/ \E p \in PresencePackets : Dispatch(p, MaxPackets)
    \/ \E h \in DOMAIN pc : Receive(h)
    \/ PartReact
    \/ Tick
    \/ \E t \in DOMAIN timers : TimerCheck(t)
    \/ \E t \in DOMAIN timers : TimerSend(t)
    \/ \E t \in DOMAIN timers : TimerClear(t)
    \/ JoinCheck
    \/ JoinSend
    \/ JoinClear

Spec == Init /\ [][Next]_vars

\* every step of a presence handler or a timer that can run; a packet
\* arriving is the environment's to withhold
PresenceProgress ==
    \/ \E h \in DOMAIN pc : Receive(h)
    \/ PartReact
    \/ Tick
    \/ \E t \in DOMAIN timers : TimerCheck(t)
    \/ \E t \in DOMAIN timers : TimerSend(t)
    \/ \E t \in DOMAIN timers : TimerClear(t)
    \/ JoinCheck
    \/ JoinSend
    \/ JoinClear

FairSpec == Spec /\ WF_vars(PresenceProgress)

\* A minute passes only once every handler is back at its select with an
\* empty channel: handling a packet takes far less than the timer's minutes.
PromptTick ==
    /\ \A h \in DOMAIN pc : pc[h] = "select" /\ input[h] = <<>>
    /\ Tick

PromptNext ==
    \/ \E p \in PresencePackets : Dispatch(p, MaxPackets)
    \/ \E h \in DOMAIN pc : Receive(h)
    \/ PartReact
    \/ PromptTick
    \/ \E t \in DOMAIN timers : TimerCheck(t)
    \/ \E t \in DOMAIN timers : TimerSend(t)
    \/ \E t \in DOMAIN timers : TimerClear(t)
    \/ JoinCheck
    \/ JoinSend
    \/ JoinClear

\* the presence subsystem with handlers that are prompt
PromptSpec == Init /\ [][PromptNext]_vars


\* ------------------------------------------------ handler tasks, one room
Msg(type, content, sender) ==
    [id |-> 0, type |-> type, error |-> "",
     data |-> JObj([id |-> JStr(<<"m">>), content |-> JStr(content),
                    sender |-> JObj([name |-> JStr(sender)])])]

Hi == <<"h", "i">>
PingExtra == <<"!", "p", "i", "n", "g", " ", "x">>
PingX == <<"!", "p", "i", "n", "g", "x">>
Pin == <<"!", "p", "i", "n">>
SeenAlice == <<"!", "s", "e", "e", "n", " ", "@", "a">>
SeenNoAt == <<"!", "s", "e", "e", "n", " ", "a">>
OneLink == <<"a", ".", "b", "c", "d">>
TwoLinks == <<"a", ".", "b", "c", "d", " ", "h", "t", "t", "p", ":", "/", "/", "e", ".", "f", "g", "h">>
AB == <<"a", " ", "b">>

PingOk ==
    [id |-> 0, type |-> PingEventType, error |-> "",
     data |-> JObj([time |-> JNum(1), next |-> JNum(2)])]

Bounce(error) ==
    [id |-> 0, type |-> BounceEventType, error |-> error,
     data |-> JObj([reason |-> JStr(<<"r">>)])]

\* packets every handler is tried on: a send-event whose data is a number,
\* one whose data is null, and a packet of a type the protocol does not know
CommonPackets ==
    {Malformed(SendEventType, JNum(0)), Malformed(UnknownType, JNone)}

PacketsOf(h) ==
    CASE h = PingEventH ->
           {PingOk, Malformed(PingEventType, JNull),
            Malformed(PingEventType, JNum(0))}
      [] h = PingCommandH ->
           {Msg(SendEventType, c, Alice) : c \in {PingCmd, PingExtra, PingX, Pin}}
             \cup {Malformed(SendEventType, JNull)}
      [] h = SeenRecordH -> {Msg(SendEventType, Hi, AB)}
      [] h = SeenCommandH ->
           {Msg(SendEventType, c, Alice) : c \in {SeenAlice, SeenNoAt, SeenCmd}}
      [] h = LinkTitleH ->
           {Msg(SendEventType, c, Alice) : c \in {OneLink, TwoLinks, Hi}}
      [] h = UptimeH -> {Msg(SendEventType, c, Alice) : c \in {UptimeCmd, Hi}}
      [] h = ScritchH -> {Msg(SendEventType, c, Alice) : c \in {ScritchCmd, Hi}}
      [] h = DebugH ->
           {Bounce(""), Bounce("e"), Malformed(BounceEventType, JNum(0))}
      [] h = MessageLogH ->
           {Msg(SendEventType, Hi, Alice), Msg(SendReplyType, Hi, Alice), PingOk}
      [] h = PartH -> {Presence(PartEventType, Alice), PingOk}
      [] h = JoinH -> {Presence(JoinEventType, Alice), Nick(<<>>, Alice)}
      [] h = NickH -> {Nick(Alice, AB), Nick(<<>>, Alice), Nick(Alice, <<>>)}

AllHandlers ==
    {PingEventH, PingCommandH, SeenRecordH, SeenCommandH, LinkTitleH, UptimeH,
     ScritchH, DebugH, MessageLogH, NickH, PartH, JoinH}

\* the handler sets a room is run with: each handler alone, and the keepalive
\* next to the seen recorder
HandlerConfigs == {{h} : h \in AllHandlers} \cup {{PingEventH, SeenRecordH}}

PacketsFor(hs) == CommonPackets \cup UNION {PacketsOf(h) : h \in hs}

HandlerInit ==
    \E hs \in HandlerConfigs :
       \E store \in (IF SeenCommandH \in hs THEN {{}, {Alice}} ELSE {{}}) :
          InitRoom(hs, store)

HandlerNext ==
    \/ \E p \in PacketsFor(DOMAIN pc) : Dispatch(p, MaxCmdPackets)
    \/ \E h \in DOMAIN pc : Receive(h)
    \/ \E h \in DOMAIN pc : ErrReceive(h)
    \/ \E h \in DOMAIN pc : ObserveKill(h)
    \/ TriggerShutdown
    \/ PingEventReact
    \/ PingCommandReact
    \/ SeenRecordReact
    \/ SeenCommandReact
    \/ LinkTitleReact
    \/ LinkTitleFetched
    \/ UptimeCommandReact
    \/ ScritchCommandReact
    \/ DebugReact
    \/ MessageLogReact
    \/ NickReact
    \/ PartReact
    \/ Tick
    \/ \E t \in DOMAIN timers : TimerCheck(t)
    \/ \E t \in DOMAIN timers : TimerSend(t)
    \/ \E t \in DOMAIN timers : TimerClear(t)
    \/ JoinCheck
    \/ JoinSend
    \/ JoinClear

HandlerSpec == HandlerInit /\ [][HandlerNext]_vars

\* Every step of a goroutine that can run; a packet arriving and shutdown
\* being triggered are the environment's to withhold.
Progress ==
    \/ \E h \in DOMAIN pc : Receive(h)
    \/ \E h \in DOMAIN pc : ErrReceive(h)
    \/ \E h \in DOMAIN pc : ObserveKill(h)
    \/ PingEventReact
    \/ PingCommandReact
    \/ SeenRecordReact
    \/ SeenCommandReact
    \/ LinkTitleReact
    \/ LinkTitleFetched
    \/ UptimeCommandReact
    \/ ScritchCommandReact
    \/ DebugReact
    \/ MessageLogReact
    \/ NickReact
    \/ PartReact
    \/ Tick
    \/ \E t \in DOMAIN timers : TimerCheck(t)
    \/ \E t \in DOMAIN timers : TimerSend(t)
    \/ \E t \in DOMAIN timers : TimerClear(t)
    \/ JoinCheck
    \/ JoinSend
    \/ JoinClear

FairHandlerSpec == HandlerSpec /\ WF_vars(Progress)

\* ------------------------------------- SeenCommandHandler, any content
\* message contents are put together from these pieces
Pieces == {SeenCmd, <<" ">>, <<"@">>, <<"a">>}

\* how many pieces a content is made of at most
MaxPieces == 5

RECURSIVE Contents(_)
Contents(n) ==
    IF n = 0 THEN {<<>>}
    ELSE Contents(n - 1) \cup {c \o p : c \in Contents(n - 1), p \in Pieces}

\* how many send-events the seen-command room is given
MaxSeenPackets == 1

SeenInit == \E store \in {{}, {Alice}} : InitRoom({SeenCommandH}, store)

SeenNext ==
    \/ \E c \in Contents(MaxPieces) :
          Dispatch(Msg(SendEventType, c, Alice), MaxSeenPackets)
    \/ Receive(SeenCommandH)
    \/ SeenCommandReact
    \/ ErrReceive(SeenCommandH)

\* a room with SeenCommandHandler alone, sent well-formed send-events
SeenSpec == SeenInit /\ [][SeenNext]_vars

\* ------------------------------------------------- decoding, any packet
\* the data a packet can carry: absent, null, scalars, the empty object,
\* objects with fields of the right kind and with a field of the wrong kind
DecodeData ==
    {JNone, JNull, JNum(0), JStr(Alice), JObj(<<>>),
     JObj([name |-> JStr(Alice)]),
     JObj([content |-> JStr(Hi), time |-> JNum(1)]),
     JObj([from |-> JStr(Alice), to |-> JStr(AB)]),
     JObj([content |-> JNum(0), name |-> JNum(0), to |-> JNum(0),
           time |-> JStr(Hi), reason |-> JNum(0), type |-> JNum(0)])}

DecodePackets == {Malformed(t, d) : t \in AllTypes, d \in DecodeData}

\* how many packets are decoded
MaxDecodePackets == 1

DecodeInit == InitRoom({}, {})

\* packet.Payload() and the three typed accessors on the next packet read
Decode ==
    /\ Len(calls) < Len(stream)
    /\ LET k == Len(calls) + 1 IN
         calls' = Append(calls,
                    [op |-> "Payload", pkt |-> k,
                     payload |-> Payload(stream[k]).payload,
                     err |-> Payload(stream[k]).err,
                     message |-> GetMessagePayload(stream[k]),
                     nick |-> GetNickEventPayload(stream[k]),
                     presence |-> GetPresenceEventPayload(stream[k])])
    /\ UNCHANGED <<stream, input, pc, cur, loc, observed, leaving, timers,
                   sent, errChan, seen, logged, cmdChan, kills, panicked,
                   rejoined, joinedAfter>>

DecodeNext ==
    \/ \E p \in DecodePackets : Dispatch(p, MaxDecodePackets)
    \/ Decode

\* packets of every type and data, read and decoded, no handler registered
DecodeSpec == DecodeInit /\ [][DecodeNext]_vars

\* --------------------------------------------- one user leaving and back
\* how many presence packets of the one user the room is given
MaxRejoinPackets == 3

RejoinPackets ==
    {Presence(PartEventType, Alice), Presence(JoinEventType, Alice)}

\* A minute passes only when no handler has work and no timer is due or in
\* the middle of firing: a timer wakes up when its sleep is over.
TimelyTick ==
    /\ \A t \in DOMAIN timers :
          \/ timers[t].pc = "done"
          \/ timers[t].pc = "sleep" /\ ~SleepOver(t)
    /\ PromptTick

RejoinNext ==
    \/ \E p \in RejoinPackets : Dispatch(p, MaxRejoinPackets)
    \/ \E h \in DOMAIN pc : Receive(h)
    \/ PartReact
    \/ TimelyTick
    \/ \E t \in DOMAIN timers : TimerCheck(t)
    \/ \E t \in DOMAIN timers : TimerSend(t)
    \/ \E t \in DOMAIN timers : TimerClear(t)
    \/ JoinCheck
    \/ JoinSend
    \/ JoinClear

\* part-events and join-events of one user, handlers and timers that are
\* prompt
RejoinSpec == Init /\ [][RejoinNext]_vars

\* ------------------------------------------- presence handlers shut down
\* how many presence packets the room is given before and during shutdown
MaxKillPackets == 2

KillInit == InitRoom({PartH, JoinH}, {})

KillProgress ==
    \/ \E h \in DOMAIN pc : Receive(h)
    \/ \E h \in DOMAIN pc : ObserveKill(h)
    \/ PartReact
    \/ Tick
    \/ \E t \in DOMAIN timers : TimerCheck(t)
    \/ \E t \in DOMAIN timers : TimerSend(t)
    \/ \E t \in DOMAIN timers : TimerClear(t)
    \/ JoinCheck
    \/ JoinSend
    \/ JoinClear

\* shutdown is triggered, once
KillOnce == kills = 0 /\ TriggerShutdown

KillNext ==
    \/ \E p \in RejoinPackets : Dispatch(p, MaxKillPackets)
    \/ KillOnce
    \/ KillProgress

\* PartEventHandler and JoinEventHandler, one user, shutdown at any moment;
\* every goroutine that can take a step does so in the end
KillSpec == KillInit /\ [][KillNext]_vars /\ WF_vars(KillProgress)

\* --------------------------------------- nick-events, both nick handlers
\* how many nick-events the room is given
MaxNickPackets == 2

\* nick-events with every combination of empty and non-empty names, and one
\* whose data is a number
NickPackets ==
    {Nick(f, t) : f \in Names, t \in Names \cup {AB}}
      \cup {Malformed(NickEventType, JNum(0))}

NickInit == InitRoom({NickH, JoinH}, {})

NickNext ==
    \/ \E p \in NickPackets : Dispatch(p, MaxNickPackets)
    \/ \E h \in DOMAIN pc : Receive(h)
    \/ NickReact
    \/ JoinCheck
    \/ JoinSend
    \/ JoinClear

\* NickChangeHandler and JoinEventHandler side by side, sent nick-events
NickSpec == NickInit /\ [][NickNext]_vars

\* ---------------------------------------------------------------- claims
LeftOf(user) ==
    {i \in DOMAIN sent : sent[i].text.fmt = "left" /\ sent[i].text.user = user}

PartsOf(user) == {q \in DOMAIN stream : IsPartOf(stream[q], user)}

\* C1: a part-event followed, before its timer fires, by a join-event (or an
\* empty-from nick-event) for the same non-empty user never gets its
\* "left the room" announcement.
C1_NoSpuriousLeave ==
    \A i \in DOMAIN sent :
       sent[i].text.fmt = "left" => sent[i].pkt \notin rejoined

\* The case of C2: the one part-event of a non-empty user, its timer finished
\* and no step of a join for that user taken after the part was processed.
C2_Case(t) ==
    /\ timers[t].user # <<>>
    /\ timers[t].pc = "done"
    /\ Cardinality(PartsOf(timers[t].user)) = 1
    /\ timers[t].part \notin joinedAfter

\* C2: a single part-event of a non-empty user with no join processed after
\* it yields exactly one "left the room" announcement, sent by that part's
\* timer once the debounce delay has been slept, and the user is no longer
\* pending-leave.
C2_OneLeaveAfterDelay ==
    /\ \A t \in DOMAIN timers :
          C2_Case(t) =>
             /\ Cardinality(LeftOf(timers[t].user)) = 1
             /\ \A i \in LeftOf(timers[t].user) : sent[i].pkt = timers[t].part
             /\ timers[t].user \notin leaving
    /\ \A t \in DOMAIN timers :
          timers[t].pc \in {"send", "clear", "done"} =>
             timers[t].slept >= DebounceDelay

C2_Witness ==
    \E t \in DOMAIN timers :
       C2_Case(t) /\ LeftOf(timers[t].user) # {} /\ Len(stream) = MaxPackets

\* C3 (state part): while JoinEventHandler handles a join of a user it found
\* pending-leave, it is on its way to the clear and has announced nothing
\* for that packet.
C3_NoJoinAnnounced ==
    (JoinH \in DOMAIN pc /\ pc[JoinH] \in {"send", "clear"} /\ loc[JoinH].flag)
       => /\ pc[JoinH] = "clear"
          /\ ~\E i \in DOMAIN sent :
                sent[i].by = JoinH /\ sent[i].pkt = cur[JoinH].id

\* C3 (step part): the handler's clear leaves the user out of the leaving set.
C3_ClearedAfter ==
    (JoinH \in DOMAIN pc /\ pc[JoinH] = "clear" /\ pc'[JoinH] = "select")
       => loc[JoinH].user \notin leaving'

\* C3: a join-event (or empty-from nick-event) for a user who is pending-leave
\* when JoinEventHandler checks sends no "joined the room" announcement and
\* leaves the user not pending-leave.
C3_JoinSuppressed == [](C3_NoJoinAnnounced) /\ [][C3_ClearedAfter]_vars

C3_Witness ==
    /\ JoinH \in DOMAIN pc
    /\ pc[JoinH] = "clear"
    /\ loc[JoinH].flag
    /\ loc[JoinH].user \in leaving

\* C9: a join-event or empty-from nick-event with an empty user name causes
\* no announcement and no change of the leaving set: nothing is announced
\* for the empty name, and a pending clear of the empty name changes nothing.
C9_EmptyNameIgnored ==
    /\ \A i \in DOMAIN sent :
          sent[i].text.fmt = "joined" => sent[i].text.user # <<>>
    /\ (JoinH \in DOMAIN pc /\ pc[JoinH] = "clear" /\ loc[JoinH].user = <<>>)
          => <<>> \notin leaving


AllDone == \A h \in DOMAIN pc : pc[h] = "done"

\* C4: once shutdown has been triggered, every handler task terminates (a
\* panic ends them all).
C4_ShutdownTerminates == (kills > 0) ~> (panicked \/ AllDone)

\* shutdown was triggered a second time, or with a handler task already gone
C5_Case ==
    \/ kills >= 2
    \/ (kills >= 1 /\ \E h \in DOMAIN pc : pc[h] = "done" /\ h \in cmdChan)

\* C5: shutdown triggered twice, or after some handler has exited, still ends
\* with every handler task terminated (a panic ends them all).
C5_RepeatedShutdownTerminates == C5_Case ~> (panicked \/ AllDone)

Ids(n) == [i \in 1..n |-> i]

\* the packets of handler h's entries in a log, in the log's order
PktsBy(log, h) ==
    LET mine == SelectSeq(log, LAMBDA e : e.by = h)
    IN [i \in DOMAIN mine |-> mine[i].pkt]

NonDecreasing(q) == \A i \in DOMAIN q : \A k \in DOMAIN q : i < k => q[i] <= q[k]

\* C6: every handler receives the packets the dispatcher read exactly once
\* and in arrival order (what it has not received yet waits in its channel,
\* in order), works on one packet at a time, and its reactions follow the
\* order of the stream.
C6_FanOutInOrder ==
    \A h \in DOMAIN pc :
       /\ observed[h] = Ids(Len(observed[h]))
       /\ Len(observed[h]) <= Len(stream)
       /\ pc[h] # "done" =>
             input[h] = SubSeq(stream, Len(observed[h]) + 1, Len(stream))
       /\ pc[h] \notin {"select", "done"} =>
             cur[h] = stream[Len(observed[h])]
       /\ NonDecreasing(PktsBy(sent, h))
       /\ NonDecreasing(PktsBy(calls, h))
       /\ NonDecreasing(PktsBy(errChan, h))

C6_Witness ==
    \E h \in DOMAIN pc :
       /\ Len(observed[h]) = MaxCmdPackets
       /\ Len(PktsBy(sent, h)) >= 2
       /\ PktsBy(sent, h)[1] # PktsBy(sent, h)[2]

\* the types whose payload handler h decodes
Decodes(h) == IF h = DebugH THEN {BounceEventType} ELSE Reacts(h)

\* the packet's data does not decode to the variant its type calls for
DecodeFails(p) ==
    Payload(p).err # NoErr \/ Payload(p).payload.variant \in {"nil", "raw"}

ReportedBy(h, k) ==
    \E i \in DOMAIN errChan : errChan[i].by = h /\ errChan[i].pkt = k

\* C7: a handler that has received a packet of a type it reacts to whose
\* payload fails to decode sends nothing, stores nothing and starts no
\* leaving-set change for it, and reports an error on the error channel and
\* returns.
C7_DecodeFailureEscalated ==
    \A h \in DOMAIN pc :
       \A k \in DOMAIN observed[h] :
          (stream[k].type \in Decodes(h) /\ DecodeFails(stream[k])) =>
             /\ ~\E i \in DOMAIN sent : sent[i].by = h /\ sent[i].pkt = k
             /\ ~\E i \in DOMAIN calls : calls[i].by = h /\ calls[i].pkt = k
             /\ ~\E t \in DOMAIN timers : timers[t].part = k
             /\ \/ (cur[h].id = k /\ pc[h] \in {"react", "report"})
                \/ (pc[h] = "done" /\ ReportedBy(h, k))

\* C8: a failed seen-store or message-log call is on its way to the error
\* channel, or has been delivered there with the handler returned.
C8_StoreFailureEscalated ==
    \A i \in DOMAIN calls :
       calls[i].failed =>
          \/ (pc[calls[i].by] = "report" /\ cur[calls[i].by].id = calls[i].pkt)
          \/ (pc[calls[i].by] = "done" /\ ReportedBy(calls[i].by, calls[i].pkt))

\* PingCommandHandler is through with packet k
PingHandled(k) ==
    /\ PingCommandH \in DOMAIN pc
    /\ k \in DOMAIN observed[PingCommandH]
    /\ cur[PingCommandH].id # k
    /\ stream[k].type = SendEventType
    /\ GetMessagePayload(stream[k]) # NilPayload

\* C10: PingCommandHandler has replied "pong!" to a send-event exactly when
\* the first word of its content is !ping.
C10_PingFirstWord ==
    \A k \in DOMAIN stream :
       PingHandled(k) =>
          ((\E i \in DOMAIN sent :
               sent[i].by = PingCommandH /\ sent[i].pkt = k)
             <=> FirstWord(GetMessagePayload(stream[k]).Content) = PingCmd)

\* the content of the k-th packet read, as a handler gets it
ContentOf(k) == GetMessagePayload(stream[k]).Content

\* handler h is through with the k-th packet
Handled(h, k) ==
    /\ k \in DOMAIN observed[h]
    /\ ~panicked
    /\ ~(cur[h].id = k /\ pc[h] = "react")

\* "!seen", one space, one token that begins with "@"
SeenShape(c) ==
    /\ Len(c) >= 7
    /\ SubSeq(c, 1, 5) = SeenCmd
    /\ c[6] = Space
    /\ c[7] = "@"
    /\ \A i \in 7..Len(c) : c[i] # Space

QueriedFor(k) ==
    \E i \in DOMAIN calls :
       calls[i].op = "retrieveSeen" /\ calls[i].pkt = k

\* C11: isValidSeenCommand accepts a content exactly when it is "!seen", one
\* space and a single token beginning with "@", and SeenCommandHandler
\* queries the seen-store for exactly the messages of that shape.
C11_SeenExactShape ==
    \A k \in DOMAIN stream :
       /\ ~isValidSeenCommand([Content |-> ContentOf(k)]).panic =>
             (isValidSeenCommand([Content |-> ContentOf(k)]).ok
                <=> SeenShape(ContentOf(k)))
       /\ Handled(SeenCommandH, k) =>
             (QueriedFor(k) <=> SeenShape(ContentOf(k)))

\* C20: no send-event content makes isValidSeenCommand, or SeenCommandHandler
\* after it, read out of range.
C20_SeenNeverFaults ==
    /\ \A k \in DOMAIN stream :
          ~isValidSeenCommand([Content |-> ContentOf(k)]).panic
    /\ ~panicked

\* the data is a JSON object whose fields, where present, have the kinds the
\* struct of the type declares
ShapeOk(p) == p.data.j = "obj" /\ ~StructErr(p.type, p.data.v)

\* C12: Payload() returns an error for every packet of an unregistered type
\* and for every packet of a registered type whose data does not have the
\* expected shape.
C12_DecodeFailsCleanly ==
    \A i \in DOMAIN calls :
       calls[i].op = "Payload" =>
          LET p == stream[calls[i].pkt] IN
            /\ p.type \notin RegisteredTypes => calls[i].err # NoErr
            /\ (p.type \in RegisteredTypes /\ ~ShapeOk(p)) =>
                  calls[i].err # NoErr

\* the decode recorded in calls[i] yields variant v
Yields(i, v) == calls[i].err = NoErr /\ calls[i].payload.variant = v

\* C13: a typed accessor whose packet does not decode to the variant it is
\* asked for fails loudly; it never hands back a nil or zero-valued payload.
C13_AccessorsFailLoudly ==
    \A i \in DOMAIN calls :
       calls[i].op = "Payload" =>
          /\ ~Yields(i, "Message") => calls[i].message = Panic
          /\ ~Yields(i, "NickEvent") => calls[i].nick = Panic
          /\ ~Yields(i, "PresenceEvent") => calls[i].presence = Panic

\* the packet types each handler is there for
CaresAbout(h) ==
    CASE h = PingEventH -> {PingEventType}
      [] h \in {PingCommandH, SeenRecordH, SeenCommandH, LinkTitleH, UptimeH,
                ScritchH} -> {SendEventType}
      [] h = NickH -> {NickEventType}
      [] h = PartH -> {PartEventType}
      [] h = JoinH -> {JoinEventType, NickEventType}
      [] h = MessageLogH -> {SendEventType, SendReplyType}
      [] h = DebugH -> AllTypes

ByHandlers(log) == {i \in DOMAIN log : log[i].by \in DOMAIN pc}

\* every send, store call and error report of a handler is for a packet of
\* a type it is there for, and so is every packet a handler is busy with
C14_NoEffectOfOthers ==
    /\ \A i \in ByHandlers(sent) :
          stream[sent[i].pkt].type \in CaresAbout(sent[i].by)
    /\ \A i \in ByHandlers(calls) :
          stream[calls[i].pkt].type \in CaresAbout(calls[i].by)
    /\ \A i \in ByHandlers(errChan) :
          stream[errChan[i].pkt].type \in CaresAbout(errChan[i].by)
    /\ \A t \in DOMAIN timers : stream[timers[t].part].type = PartEventType
    /\ \A h \in DOMAIN pc :
          pc[h] \notin {"select", "done"} => cur[h].type \in CaresAbout(h)

\* the step that takes a packet of another type off the channel changes
\* nothing else and leaves the handler at its select
C14_SkipStep ==
    \A h \in DOMAIN pc :
       (observed'[h] # observed[h] /\ Head(input[h]).type \notin CaresAbout(h))
          => /\ pc'[h] = "select"
             /\ input'[h] = Tail(input[h])
             /\ UNCHANGED <<sent, calls, errChan, leaving, timers, logged,
                            panicked>>

\* C14: a packet of a type a handler does not react to causes no send, no
\* store call, no error report and no change of the leaving set, and the
\* handler stays at its select, ready for the next packet.
C14_OtherTypesIgnored == [](C14_NoEffectOfOthers) /\ [][C14_SkipStep]_vars

C14_Witness ==
    \E h \in DOMAIN pc :
       /\ Len(observed[h]) = 2
       /\ stream[1].type \notin CaresAbout(h)
       /\ \E i \in DOMAIN sent : sent[i].by = h /\ sent[i].pkt = 2

\* timer t is between its isUserLeaving and its clearUserLeaving
TimerInCheckAct(t) == timers[t].pc \in {"send", "clear"}

\* JoinEventHandler is between its isUserLeaving and its clearUserLeaving
JoinInCheckAct == JoinH \in DOMAIN pc /\ pc[JoinH] \in {"send", "clear"}

\* this step is a timer other than t calling isUserLeaving or
\* clearUserLeaving for user
TimerOpOn(user, t) ==
    \E o \in DOMAIN timers \ {t} :
       /\ timers[o].user = user
       /\ \/ timers[o].pc = "sleep" /\ timers'[o].pc # "sleep"
          \/ timers[o].pc = "clear" /\ timers'[o].pc = "done"

\* this step is PartEventHandler's setUserLeaving for user
PartOpOn(user) ==
    Len(timers') > Len(timers) /\ timers'[Len(timers')].user = user

\* this step is JoinEventHandler's isUserLeaving or clearUserLeaving for user
JoinOpOn(user) ==
    /\ JoinH \in DOMAIN pc
    /\ \/ pc[JoinH] = "react" /\ pc'[JoinH] \in {"send", "clear"}
             /\ loc'[JoinH].user = user
       \/ pc[JoinH] = "clear" /\ pc'[JoinH] = "select"
             /\ loc[JoinH].user = user

C15_ExclusiveStep ==
    /\ \A t \in DOMAIN timers :
          TimerInCheckAct(t) =>
             ~(\/ TimerOpOn(timers[t].user, t)
               \/ PartOpOn(timers[t].user)
               \/ JoinOpOn(timers[t].user))
    /\ JoinInCheckAct =>
          ~(\/ TimerOpOn(loc[JoinH].user, 0)
            \/ PartOpOn(loc[JoinH].user))

\* C15: between the isUserLeaving check of partTimer or JoinEventHandler and
\* the clearUserLeaving that follows it, no other actor's setUserLeaving,
\* isUserLeaving or clearUserLeaving for the same user takes effect.
C15_CheckActExclusive == [][C15_ExclusiveStep]_vars

\* shutdown has been triggered, every handler task has returned and the
\* timer of part-event q is still asleep
C16_Pending(q) ==
    /\ kills > 0
    /\ AllDone
    /\ \E t \in DOMAIN timers : timers[t].part = q /\ timers[t].pc = "sleep"

C16_TimerDone(q) ==
    \E t \in DOMAIN timers : timers[t].part = q /\ timers[t].pc = "done"

\* a timer that wakes up finds the user pending-leave or not and acts on it:
\* the announcement, then the clear
C16_FireStep ==
    \A t \in DOMAIN timers :
       /\ (timers[t].pc = "sleep" /\ timers'[t].pc # "sleep") =>
             timers'[t].pc = IF timers[t].user \in leaving
                                  /\ timers[t].user # <<>>
                             THEN "send" ELSE "done"
       /\ (timers[t].pc = "send" /\ timers'[t].pc # "send") =>
             /\ timers'[t].pc = "clear"
             /\ sent' = Append(sent, sent'[Len(sent')])
             /\ sent'[Len(sent')].text = [fmt |-> "left", user |-> timers[t].user]
             /\ sent'[Len(sent')].pkt = timers[t].part
       /\ (timers[t].pc = "clear" /\ timers'[t].pc # "clear") =>
             /\ timers'[t].pc = "done"
             /\ timers[t].user \notin leaving'

\* C16: a partTimer still asleep when shutdown has ended every handler task
\* goes on to fire, and when it finds its user pending-leave it sends the
\* "left the room" announcement and clears the user.
C16_TimerSurvivesKill ==
    /\ \A q \in 1..MaxKillPackets : C16_Pending(q) ~> C16_TimerDone(q)
    /\ [][C16_FireStep]_vars

C16_Witness ==
    \E t \in DOMAIN timers :
       /\ C16_Pending(timers[t].part)
       /\ timers[t].pc = "sleep"
       /\ timers[t].slept < DebounceDelay
       /\ timers[t].user # <<>>
       /\ timers[t].user \in leaving

\* the timer of an earlier part-event decides to announce the leave while a
\* later part-event of the same user, handled after a join in between and
\* some minutes ago, is not yet a full delay old
C17_EarlyLeave(t, o) ==
    /\ t < o
    /\ timers[t].user = timers[o].user
    /\ timers[t].user # <<>>
    /\ \E j \in DOMAIN stream :
          /\ timers[t].part < j
          /\ j < timers[o].part
          /\ IsJoinOf(stream[j], timers[t].user)
    /\ timers[t].part \in joinedAfter
    /\ timers[o].part \notin joinedAfter
    /\ timers[o].slept > 0
    /\ timers[o].slept < DebounceDelay
    /\ timers[t].pc = "sleep"
    /\ timers'[t].pc = "send"

C17_FullDelayStep ==
    \A t \in DOMAIN timers : \A o \in DOMAIN timers : ~C17_EarlyLeave(t, o)

\* C17: in part(U), join(U), part(U), the second part inside the window of
\* the first, the timer of the first part does not announce the leave of
\* the second: no announcement sooner than a full delay after the latest
\* part-event.
C17_LeaveAfterLatestPart == [][C17_FullDelayStep]_vars

\* C18: every name a part-event has put in the leaving set, the empty name
\* included, is removed from it again (a panic ends the program instead).
C18_LeavingDrains ==
    \A u \in Names : (u \in leaving) ~> (panicked \/ u \notin leaving)

\* user has been pending-leave without a break since the first part-event
\* handled for it: no join for it has arrived and no timer has cleared it
StaysPending(user) ==
    /\ \A j \in DOMAIN stream : ~IsJoinOf(stream[j], user)
    /\ \A t \in DOMAIN timers :
          (timers[t].user = user /\ timers[t].pc = "done") =>
             ~\E i \in LeftOf(user) : sent[i].pkt = timers[t].part

\* C19: part-events of one user that arrive while the user stays
\* pending-leave get at most one "left the room" announcement between them.
C19_AtMostOneLeave ==
    \A u \in Names \ {<<>>} :
       StaysPending(u) => Cardinality(LeftOf(u)) <= 1

\* the announcements made for the k-th packet
AnnouncedFor(k) == {i \in DOMAIN sent : sent[i].pkt = k}

\* C21: a nick-event gets at most one announcement from NickChangeHandler
\* and JoinEventHandler together: with an empty `from` only "joined the
\* room" by the join path, with a non-empty `from` only "is now known as" by
\* the nick-change path.
C21_OneNickAnnouncement ==
    \A k \in DOMAIN stream :
       stream[k].type = NickEventType =>
          /\ Cardinality(AnnouncedFor(k)) <= 1
          /\ \A i \in AnnouncedFor(k) :
                IF GetNickEventPayload(stream[k]).From = <<>>
                THEN sent[i].by = JoinH /\ sent[i].text.fmt = "joined"
                ELSE sent[i].by = NickH /\ sent[i].text.fmt = "nick"

\* both handlers are through with two nick-events, one announced by each
C21_Witness ==
    /\ \A h \in {NickH, JoinH} :
          h \in DOMAIN pc /\ pc[h] = "select" /\ Len(observed[h]) = 2
    /\ \E i \in DOMAIN sent : \E k \in DOMAIN sent :
          /\ sent[i].by = JoinH
          /\ sent[k].by = NickH
          /\ sent[i].pkt # sent[k].pkt

====
